---- MODULE Spec2Model ----
(***************************************************************************)
(* Model of the Art Director's Briefing Tool (src/app.py): the Streamlit   *)
(* session state (slides, current_slide_idx, next_id, openai_api_key and   *)
(* the three generated_* keys) and one action per widget interaction.      *)
(* Each action is one complete script run triggered by that interaction.   *)
(* Python list indices are kept 0-based as in the source; the element at   *)
(* Python index i of a list s is s[i + 1].                                 *)
(***************************************************************************)
EXTENDS Integers, Sequences, FiniteSets, TLC

VARIABLES slides, current_slide_idx, next_id, openai_api_key,
          generated_image_url, generated_image_bytes, generated_prompt,
          assigned_ids, run, edits, generations

vars == <<slides, current_slide_idx, next_id, openai_api_key,
          generated_image_url, generated_image_bytes, generated_prompt,
          assigned_ids, run, edits, generations>>

session == <<slides, current_slide_idx, next_id,
             generated_image_url, generated_image_bytes, generated_prompt>>

pending == <<generated_image_url, generated_image_bytes, generated_prompt>>

----------------------------------------------------------------------------
(* Bounds of the model *)

MaxNextId == 3
MaxGenerations == 2
MaxEdits == 1

----------------------------------------------------------------------------
(* Values *)

\* Python's None
None == "<None>"
\* a key that is not in st.session_state
Absent == "<absent>"

\* Python truthiness of an optional str / bytes value
Truthy(v) == v # None /\ v # Absent /\ v # ""

ApiKeys == {"", "sk-test"}
TitleInputs == {"Intro"}
TextInputs == {""}
pos_options == <<"bottom", "top", "center">>
StyleInputs == {"illustration", "abstract"}
\* urls the image service may answer with
UpstreamUrls == {"https://img/1"}
\* bodies the download may answer with (an empty body is possible)
UpstreamBodies == {"", "PNG-A"}

Range(s) == {s[k] : k \in 1..Len(s)}

InitialSlide ==
    [id |-> 0, title |-> "Slide 1: Title",
     text |-> "Add your message to users here.",
     image_prompt |-> None, image_url |-> None, image_bytes |-> None,
     text_position |-> "bottom"]

Init ==
    /\ slides = <<InitialSlide>>
    /\ current_slide_idx = 0
    /\ next_id = 1
    /\ openai_api_key = ""
    /\ generated_image_url = Absent
    /\ generated_image_bytes = Absent
    /\ generated_prompt = Absent
    /\ assigned_ids = {0}
    /\ run = [op |-> "init", arg |-> 0, msg |-> "", net |-> <<>>, doc |-> <<>>]
    /\ edits = 0
    /\ generations = 0

\* What the last script run did and showed: the widget that triggered it
\* (op, arg), the st.error / st.warning message, the outbound calls made and
\* the document offered for download.  Nothing of it survives the next run.
Run(op, arg, msg, net, doc) ==
    [op |-> op, arg |-> arg, msg |-> msg, net |-> net, doc |-> doc]

counters == <<edits, generations>>

----------------------------------------------------------------------------
(* Settings *)

SetApiKey(k) ==
    /\ k # openai_api_key
    /\ openai_api_key' = k
    /\ run' = Run("set_key", 0, "", <<>>, <<>>)
    /\ UNCHANGED <<session, assigned_ids, counters>>

----------------------------------------------------------------------------
(* Slide management *)

NewSlide(new_id) ==
    [id |-> new_id,
     title |-> "Slide " \o ToString(new_id + 1) \o ": New Slide",
     text |-> "Add your message here.",
     image_prompt |-> None, image_url |-> None, image_bytes |-> None,
     text_position |-> "bottom"]

\* mutant: the new slide is put in front of the list
AppendSlideFront(s, new_slide) == <<new_slide>> \o s

AppendSlide(s, new_slide) == Append(s, new_slide)

\* mutant: the length is taken for the last index
SelectedAfterAddLen(s) == Len(s)

\* the index selected after the append: len(slides) - 1
SelectedAfterAdd(s) == Len(s) - 1

\* mutant: the id is derived from the number of slides
FreshIdFromLen == Len(slides)

\* new_id = st.session_state.next_id
FreshId == next_id

AddSlide ==
    /\ next_id < MaxNextId
    /\ LET new_id == FreshId
           new_slide == NewSlide(new_id)
       IN /\ slides' = AppendSlide(slides, new_slide)
          /\ next_id' = next_id + 1
          /\ assigned_ids' = assigned_ids \cup {new_id}
          /\ current_slide_idx' = SelectedAfterAdd(slides')
          /\ run' = Run("add", new_id, "", <<>>, <<>>)
    /\ UNCHANGED <<openai_api_key, pending, counters>>

\* mutant: the number shown on the button is stored instead of the index
SelectedIdxLabel(i) == i + 1

\* st.session_state.current_slide_idx = i
SelectedIdx(i) == i

SelectSlide(i) ==
    /\ i \in 0..(Len(slides) - 1)
    /\ current_slide_idx' = SelectedIdx(i)
    /\ run' = Run("select", i, "", <<>>, <<>>)
    /\ UNCHANGED <<slides, next_id, openai_api_key, pending, assigned_ids,
                   counters>>

\* mutant: the guard admits a list of one slide
CanDeleteAny(s) == Len(s) > 0

\* len(st.session_state.slides) > 1
CanDelete(s) == Len(s) > 1

\* mutant: pop() without the index removes the last slide
PopLast(s, i) == SubSeq(s, 1, Len(s) - 1)

\* mutant: the last slide is moved into the freed position
PopSwapLast(s, i) ==
    IF i + 1 = Len(s)
    THEN SubSeq(s, 1, Len(s) - 1)
    ELSE [SubSeq(s, 1, Len(s) - 1) EXCEPT ![i + 1] = s[Len(s)]]

\* list.pop(i)
PopAt(s, i) == SubSeq(s, 1, i) \o SubSeq(s, i + 2, Len(s))

\* mutant: the index is always moved back by one, floored at zero
AdjustIdxDecrement(cur, n) == IF cur > 0 THEN cur - 1 ELSE 0

\* the index adjustment after the pop; n is the length after the pop
AdjustIdx(cur, n) == IF cur >= n THEN n - 1 ELSE cur

DeleteSlide(i) ==
    /\ i \in 0..(Len(slides) - 1)
    /\ IF CanDelete(slides)
       THEN /\ slides' = PopAt(slides, i)
            /\ current_slide_idx' = AdjustIdx(current_slide_idx, Len(slides'))
            /\ run' = Run("delete", i, "", <<>>, <<>>)
       ELSE /\ run' = Run("delete", i, "Cannot delete the last slide.",
                          <<>>, <<>>)
            /\ UNCHANGED <<slides, current_slide_idx>>
    /\ UNCHANGED <<next_id, openai_api_key, pending, assigned_ids, counters>>

----------------------------------------------------------------------------
(* Slide editor: the three widgets write into the current slide *)

current_slide == slides[current_slide_idx + 1]

EditTitle(v) ==
    /\ edits < MaxEdits
    /\ v # current_slide.title
    /\ slides' = [slides EXCEPT ![current_slide_idx + 1].title = v]
    /\ edits' = edits + 1
    /\ run' = Run("edit_title", current_slide_idx, "", <<>>, <<>>)
    /\ UNCHANGED <<current_slide_idx, next_id, openai_api_key, pending,
                   assigned_ids, generations>>

EditText(v) ==
    /\ edits < MaxEdits
    /\ v # current_slide.text
    /\ slides' = [slides EXCEPT ![current_slide_idx + 1].text = v]
    /\ edits' = edits + 1
    /\ run' = Run("edit_text", current_slide_idx, "", <<>>, <<>>)
    /\ UNCHANGED <<current_slide_idx, next_id, openai_api_key, pending,
                   assigned_ids, generations>>

SetTextPosition(p) ==
    /\ edits < MaxEdits
    /\ p \in Range(pos_options)
    /\ p # current_slide.text_position
    /\ slides' = [slides EXCEPT ![current_slide_idx + 1].text_position = p]
    /\ edits' = edits + 1
    /\ run' = Run("edit_position", current_slide_idx, "", <<>>, <<>>)
    /\ UNCHANGED <<current_slide_idx, next_id, openai_api_key, pending,
                   assigned_ids, generations>>

----------------------------------------------------------------------------
(* Image generation *)

SubjectInputs == {"a silver dragon perched on a jagged cliff"}
ActionInputs == {"roaring toward the stormy sky"}
EnvironmentInputs == {"craggy seaside coast at dusk"}

FinalPrompt(subject, action, environment, style) ==
    subject \o " " \o action \o ", " \o environment
        \o ", in the style of a " \o style \o ", 16:9 aspect ratio"

\* An exception message is a sequence of fragments; <<>> is "nothing raised".
\* `pat in msg` holds when pat is one of the fragments.
Contains(msg, pat) == pat \in Range(msg)

UpstreamErrors ==
    { <<"Error code: 401 - ", "Incorrect API key", " provided">>,
      <<"Error code: 400 - ", "content_policy_violation">>,
      <<"Connection error.">> }

DownloadErrors == { <<"404 Client Error: Not Found for url">> }

\* what client.images.generate does: returns a response or raises
GenResponses ==
    {[url |-> u, error |-> <<>>] : u \in UpstreamUrls \cup {None}}
        \cup {[url |-> None, error |-> e] : e \in UpstreamErrors}

\* what requests.get + raise_for_status does: returns a body or raises
DlResponses ==
    {[content |-> b, error |-> <<>>] : b \in UpstreamBodies}
        \cup {[content |-> None, error |-> e] : e \in DownloadErrors}

\* The behaviours of the two services during one call of the adapter: the
\* download is attempted only for a response that carries a url.
NotFetched == [content |-> None, error |-> <<>>]

Upstream ==
    {<<g, d>> \in GenResponses \X (DlResponses \cup {NotFetched}) :
        d = NotFetched <=> (g.error # <<>> \/ ~Truthy(g.url))}

\* the except-branch: the st.error shown for an exception message
ErrorMessage(msg) ==
    IF Contains(msg, "Incorrect API key")
    THEN "The provided OpenAI API key is incorrect. Please check and re-enter it."
    ELSE IF Contains(msg, "content_policy_violation")
    THEN "Image generation failed due to a content policy violation. Please modify your prompt."
    ELSE "Image generation failed"

SuccessMessage == "Image successfully generated and downloaded!"

\* mutant: a failed download still returns the url, without bytes
generate_and_download_image_partial(prompt, api_key, gen_resp, dl_resp) ==
    IF api_key = ""
    THEN [result |-> <<>>, net |-> <<>>,
          msg |-> "OpenAI API key is missing. Please enter it in the sidebar."]
    ELSE IF gen_resp.error # <<>>
    THEN [result |-> <<>>, net |-> <<"images.generate">>,
          msg |-> ErrorMessage(gen_resp.error)]
    ELSE IF ~Truthy(gen_resp.url)
    THEN [result |-> <<>>, net |-> <<"images.generate", "requests.get">>,
          msg |-> ErrorMessage(<<"Invalid URL 'None': No scheme supplied.">>)]
    ELSE IF dl_resp.error # <<>>
    THEN [result |-> <<gen_resp.url, None>>,
          net |-> <<"images.generate", "requests.get">>,
          msg |-> ErrorMessage(dl_resp.error)]
    ELSE [result |-> <<gen_resp.url, dl_resp.content>>,
          net |-> <<"images.generate", "requests.get">>,
          msg |-> SuccessMessage]

\* mutant: the adapter does not look at the key before calling out
generate_and_download_image_nokeycheck(prompt, api_key, gen_resp, dl_resp) ==
    IF gen_resp.error # <<>>
    THEN [result |-> <<>>, net |-> <<"images.generate">>,
          msg |-> ErrorMessage(gen_resp.error)]
    ELSE IF ~Truthy(gen_resp.url)
    THEN [result |-> <<>>, net |-> <<"images.generate", "requests.get">>,
          msg |-> ErrorMessage(<<"Invalid URL 'None': No scheme supplied.">>)]
    ELSE IF dl_resp.error # <<>>
    THEN [result |-> <<>>, net |-> <<"images.generate", "requests.get">>,
          msg |-> ErrorMessage(dl_resp.error)]
    ELSE [result |-> <<gen_resp.url, dl_resp.content>>,
          net |-> <<"images.generate", "requests.get">>,
          msg |-> SuccessMessage]

\* The return value is <<>> for None and <<image_url, image_bytes>> otherwise;
\* msg is the st.error / st.success shown, net the outbound calls made.
generate_and_download_image(prompt, api_key, gen_resp, dl_resp) ==
    IF api_key = ""
    THEN [result |-> <<>>, net |-> <<>>,
          msg |-> "OpenAI API key is missing. Please enter it in the sidebar."]
    ELSE IF gen_resp.error # <<>>
    THEN [result |-> <<>>, net |-> <<"images.generate">>,
          msg |-> ErrorMessage(gen_resp.error)]
    ELSE IF ~Truthy(gen_resp.url)
    THEN \* requests.get raises MissingSchema for a url that is None
         [result |-> <<>>, net |-> <<"images.generate", "requests.get">>,
          msg |-> ErrorMessage(<<"Invalid URL 'None': No scheme supplied.">>)]
    ELSE IF dl_resp.error # <<>>
    THEN [result |-> <<>>, net |-> <<"images.generate", "requests.get">>,
          msg |-> ErrorMessage(dl_resp.error)]
    ELSE [result |-> <<gen_resp.url, dl_resp.content>>,
          net |-> <<"images.generate", "requests.get">>,
          msg |-> SuccessMessage]

\* `if result:` -- a 2-tuple is truthy, None is not
ResultOk(result) == result # <<>>

\* mutant: the keys are set only if no generation is pending yet
PendingAfterSetIfAbsent(url, bytes, prompt) ==
    IF generated_image_url # Absent THEN pending ELSE <<url, bytes, prompt>>

\* the three assignments to st.session_state after a successful generation
PendingAfterSet(url, bytes, prompt) == <<url, bytes, prompt>>

GenerateImage(subject, action, environment, style, gen_resp, dl_resp) ==
    /\ generations < MaxGenerations
    /\ IF openai_api_key = ""
       THEN /\ run' = Run("generate", 0,
                   "Please enter your OpenAI API key in the left sidebar.",
                   <<>>, <<>>)
            /\ UNCHANGED <<pending, generations>>
       ELSE LET final_prompt == FinalPrompt(subject, action, environment, style)
                out == generate_and_download_image(final_prompt,
                           openai_api_key, gen_resp, dl_resp)
            IN /\ run' = Run("generate", 0, out.msg, out.net, <<>>)
               /\ IF ResultOk(out.result)
                  THEN LET set == PendingAfterSet(out.result[1],
                                       out.result[2], final_prompt)
                       IN /\ generated_image_url' = set[1]
                          /\ generated_image_bytes' = set[2]
                          /\ generated_prompt' = set[3]
                          /\ generations' = generations + 1
                  ELSE UNCHANGED <<pending, generations>>
    /\ UNCHANGED <<slides, current_slide_idx, next_id, openai_api_key,
                   assigned_ids, edits>>

----------------------------------------------------------------------------
(* "Use This Image for Current Slide" *)

\* mutant: the button is rendered unconditionally
CommitOfferedAlways(url) == TRUE

\* the commit block is rendered only if st.session_state.get(...) is truthy
CommitOffered(url) == Truthy(url)

\* mutant: the bytes are not stored on the slide
WithImageNoBytes(slide, url, bytes, prompt) ==
    [slide EXCEPT !.image_url = url, !.image_prompt = prompt]

\* mutant: the prompt is not stored on the slide
WithImageNoPrompt(slide, url, bytes, prompt) ==
    [slide EXCEPT !.image_url = url, !.image_bytes = bytes]

\* the three assignments to the slide dict
WithImage(slide, url, bytes, prompt) ==
    [slide EXCEPT !.image_url = url, !.image_bytes = bytes,
                  !.image_prompt = prompt]

\* mutant: the handler always writes to the first slide
CommitTargetFirst(cur) == 0

\* the index of the slide the handler writes to
CommitTarget(cur) == cur

\* mutant: generated_prompt is not deleted
ClearedPendingKeepPrompt == <<Absent, Absent, generated_prompt>>

\* the three del statements
ClearedPending == <<Absent, Absent, Absent>>

UseThisImage ==
    /\ CommitOffered(generated_image_url)
    /\ LET t == CommitTarget(current_slide_idx)
       IN slides' = [slides EXCEPT ![t + 1] =
                        WithImage(@, generated_image_url,
                                  generated_image_bytes, generated_prompt)]
    /\ generated_image_url' = ClearedPending[1]
    /\ generated_image_bytes' = ClearedPending[2]
    /\ generated_prompt' = ClearedPending[3]
    /\ run' = Run("commit", current_slide_idx, "", <<>>, <<>>)
    /\ UNCHANGED <<current_slide_idx, next_id, openai_api_key, assigned_ids,
                   counters>>

----------------------------------------------------------------------------
(* Export *)

\* pptx.util.Inches, for a length given in tenths of an inch (EMU)
Inches10(t) == t * 91440

slide_width == Inches10(160)
slide_height == Inches10(90)
tx_width == Inches10(142)
tx_height == Inches10(25)
tx_left == Inches10(9)

TxTop(position) ==
    IF position = "top" THEN Inches10(5)
    ELSE IF position = "center" THEN (slide_height - tx_height) \div 2
    ELSE slide_height - tx_height - Inches10(5)

\* mutant: the text box is filled only on top of an image
PageOfFillOnImage(slide_data) ==
    (IF Truthy(slide_data.image_bytes)
     THEN << [shape |-> "picture", data |-> slide_data.image_bytes,
              left |-> 0, top |-> 0, text |-> "", fill |-> "none"] >>
     ELSE << >>)
    \o
    (IF slide_data.text # ""
     THEN << [shape |-> "textbox", data |-> None,
              left |-> tx_left, top |-> TxTop(slide_data.text_position),
              text |-> slide_data.text,
              fill |-> IF Truthy(slide_data.image_bytes)
                       THEN "solid" ELSE "none"] >>
     ELSE << >>)

\* the shapes put on the page of one slide, in the order they are added
PageOf(slide_data) ==
    (IF Truthy(slide_data.image_bytes)
     THEN << [shape |-> "picture", data |-> slide_data.image_bytes,
              left |-> 0, top |-> 0, text |-> "", fill |-> "none"] >>
     ELSE << >>)
    \o
    (IF slide_data.text # ""
     THEN << [shape |-> "textbox", data |-> None,
              left |-> tx_left, top |-> TxTop(slide_data.text_position),
              text |-> slide_data.text, fill |-> "solid"] >>
     ELSE << >>)

HasImageBytes(slide_data) == Truthy(slide_data.image_bytes)

\* mutant: slides without an image are skipped
create_pptx_from_slides_with_image(s) ==
    LET kept == SelectSeq(s, HasImageBytes)
    IN [k \in 1..Len(kept) |-> PageOf(kept[k])]

create_pptx_from_slides(s) == [k \in 1..Len(s) |-> PageOf(s[k])]

\* mutant: every slide must have an image
can_export_all == \A k \in 1..Len(slides) : Truthy(slides[k].image_bytes)

can_export == \E k \in 1..Len(slides) : Truthy(slides[k].image_bytes)

ExportPptx ==
    /\ can_export
    /\ run' = Run("export", 0, "", <<>>, create_pptx_from_slides(slides))
    /\ UNCHANGED <<session, openai_api_key, assigned_ids, counters>>

Next ==
    \/ \E k \in ApiKeys : SetApiKey(k)
    \/ AddSlide
    \/ \E i \in 0..(MaxNextId - 1) : SelectSlide(i)
    \/ \E i \in 0..(MaxNextId - 1) : DeleteSlide(i)
    \/ \E v \in TitleInputs : EditTitle(v)
    \/ \E v \in TextInputs : EditText(v)
    \/ \E p \in Range(pos_options) : SetTextPosition(p)
    \/ \E su \in SubjectInputs, ac \in ActionInputs, en \in EnvironmentInputs,
          st \in StyleInputs, up \in Upstream :
            GenerateImage(su, ac, en, st, up[1], up[2])
    \/ UseThisImage
    \/ ExportPptx

Spec == Init /\ [][Next]_vars

----------------------------------------------------------------------------
(* Properties *)

Max(a, b) == IF a >= b THEN a ELSE b
Min(a, b) == IF a <= b THEN a ELSE b

PendingPresent ==
    /\ generated_image_url # Absent
    /\ generated_image_bytes # Absent
    /\ generated_prompt # Absent

PendingEmpty ==
    /\ generated_image_url = Absent
    /\ generated_image_bytes = Absent
    /\ generated_prompt = Absent

DeleteDone == run.op = "delete" /\ run.msg = ""
DeleteRefused == run.op = "delete" /\ run.msg = "Cannot delete the last slide."
GenerateFailed == run.op = "generate" /\ run.msg # SuccessMessage

\* C1: in every reachable state the slide list holds at least one slide and
\* the current index is a valid index of it: 0 <= current index < length.
C1_IndexInRange ==
    /\ Len(slides) >= 1
    /\ 0 <= current_slide_idx
    /\ current_slide_idx < Len(slides)

\* a delete took effect after other slides were added and an image committed,
\* and the current index sits on the last remaining position
C1_Witness ==
    /\ DeleteDone
    /\ Len(slides) >= 2
    /\ current_slide_idx = Len(slides) - 1
    /\ \E k \in 1..Len(slides) : slides[k].image_url # None

\* C2: a delete on a list of exactly one slide changes neither the slide
\* list, the current index, the id counter nor the pending generation; only
\* the warning is shown.
C2_DeleteSingletonRefused ==
    [][ (run'.op = "delete" /\ Len(slides) = 1)
            => /\ run'.msg = "Cannot delete the last slide."
               /\ slides' = slides
               /\ current_slide_idx' = current_slide_idx
               /\ next_id' = next_id
               /\ pending' = pending ]_vars

\* the delete was refused on a one-slide list while a generation is pending
\* and ids have been handed out before
C2_Witness ==
    /\ DeleteRefused
    /\ Len(slides) = 1
    /\ next_id > 1
    /\ PendingPresent

\* C3 (as stated): after a delete that took effect, the current index is
\* max(old - 1, 0) if the removed index was <= the old current index, and is
\* unchanged if the removed index was greater.
C3_AsStated ==
    [][ (run'.op = "delete" /\ run'.msg = "")
            => IF run'.arg <= current_slide_idx
               THEN current_slide_idx' = Max(current_slide_idx - 1, 0)
               ELSE current_slide_idx' = current_slide_idx ]_vars

\* C3 (amended): after a delete that took effect, the current index is the
\* smaller of the old current index and the new last index, whichever index
\* was removed.
C3_DeleteClampsIndex ==
    [][ (run'.op = "delete" /\ run'.msg = "")
            => current_slide_idx' =
                   Min(current_slide_idx, Len(slides') - 1) ]_vars

\* a slide at or before the current one was removed and the current index
\* is still positive
C3_Witness ==
    /\ DeleteDone
    /\ run.arg <= current_slide_idx
    /\ current_slide_idx >= 1

\* C4: add-slide appends exactly one slide with default fields at the end,
\* leaves the slides that were there unchanged and in place, and selects
\* the new slide.
C4_AddAppendsDefault ==
    [][ run'.op = "add"
            => /\ Len(slides') = Len(slides) + 1
               /\ SubSeq(slides', 1, Len(slides)) = slides
               /\ LET new == slides'[Len(slides')]
                  IN /\ new.image_prompt = None
                     /\ new.image_url = None
                     /\ new.image_bytes = None
                     /\ new.text_position = "bottom"
               /\ current_slide_idx' = Len(slides') - 1 ]_vars

\* a slide was added behind a slide that had been edited or given an image
C4_Witness ==
    /\ run.op = "add"
    /\ Len(slides) >= 2
    /\ current_slide_idx = Len(slides) - 1
    /\ \E k \in 1..(Len(slides) - 1) :
          \/ slides[k].image_url # None
          \/ slides[k].text_position # "bottom"

\* C5: the ids of the slides are pairwise distinct, next_id is greater than
\* every id ever assigned, and an added slide gets an id that no slide,
\* present or deleted, ever had.
C5_IdsNeverReused ==
    /\ [](/\ \A j, k \in 1..Len(slides) : slides[j].id = slides[k].id => j = k
          /\ \A k \in 1..Len(slides) : slides[k].id \in assigned_ids
          /\ \A id \in assigned_ids : id < next_id)
    /\ [][ run'.op = "add"
             => slides'[Len(slides')].id \notin assigned_ids ]_vars

\* a slide was added after an earlier slide had been deleted
C5_Witness ==
    /\ run.op = "add"
    /\ Len(slides) < Cardinality(assigned_ids)
    /\ slides[Len(slides)].id = next_id - 1

\* C6: a delete that took effect removes exactly the slide at the given
\* index: the list is one shorter and every other slide is unchanged and
\* keeps its place relative to the others.
C6_DeleteRemovesExactlyOne ==
    [][ (run'.op = "delete" /\ run'.msg = "")
            => /\ Len(slides') = Len(slides) - 1
               /\ \A k \in 1..Len(slides') :
                     slides'[k] = slides[IF k <= run'.arg THEN k ELSE k + 1]
       ]_vars

\* the slide in the middle of ids 0, 1, 2 was removed
C6_Witness ==
    /\ DeleteDone
    /\ run.arg = 1
    /\ Len(slides) = 2
    /\ slides[1].id = 0
    /\ slides[2].id = 2

\* C7: a commit copies the pending prompt, url and bytes into the slide at
\* the current index and leaves the pending slot empty.
C7_CommitCopiesAndClears ==
    [][ run'.op = "commit"
            => /\ PendingPresent
               /\ LET target == slides'[current_slide_idx + 1]
                  IN /\ target.image_prompt = generated_prompt
                     /\ target.image_url = generated_image_url
                     /\ target.image_bytes = generated_image_bytes
               /\ PendingEmpty' ]_vars

\* a commit was made to a slide other than the first
C7_Witness ==
    /\ run.op = "commit"
    /\ PendingEmpty
    /\ current_slide_idx >= 1
    /\ Truthy(current_slide.image_url)
    /\ Truthy(current_slide.image_bytes)

\* C8: a commit happens only from a state with a pending generation, and no
\* commit directly follows a commit.
C8_CommitNeedsPending ==
    /\ [][ run'.op = "commit" => Truthy(generated_image_url) ]_vars
    /\ [][ run.op = "commit" => run'.op # "commit" ]_vars
    /\ [](PendingEmpty => ~ENABLED UseThisImage)

\* right after a commit: the slot is empty and the commit is not offered
C8_Witness ==
    /\ run.op = "commit"
    /\ PendingEmpty
    /\ ~ENABLED UseThisImage

\* C9: every slide has an image url exactly if it has an image prompt.
C9_UrlIffPrompt ==
    \A k \in 1..Len(slides) :
        (slides[k].image_url # None) <=> (slides[k].image_prompt # None)

\* one slide has url and prompt, another has neither
C9_Witness ==
    \E j, k \in 1..Len(slides) :
        /\ slides[j].image_url # None
        /\ slides[j].image_prompt # None
        /\ slides[k].image_url = None
        /\ slides[k].image_prompt = None

\* C10: a generation that fails, for whichever reason, changes neither the
\* pending generation, the slide list, the current index nor the id counter.
C10_FailedGenerationNoChange ==
    [][ (run'.op = "generate" /\ run'.msg # SuccessMessage)
            => /\ pending' = pending
               /\ slides' = slides
               /\ current_slide_idx' = current_slide_idx
               /\ next_id' = next_id ]_vars

\* the download failed after the generate call, while an earlier result is
\* still pending
C10_Witness ==
    /\ GenerateFailed
    /\ run.net = <<"images.generate", "requests.get">>
    /\ PendingPresent

MissingKeyMessages ==
    { "Please enter your OpenAI API key in the left sidebar.",
      "OpenAI API key is missing. Please enter it in the sidebar." }

\* C11: a generation requested with an empty key ends with the missing-key
\* message and without any outbound call: neither images.generate nor
\* requests.get is issued, by the submit handler or by the adapter called
\* with an empty key, whatever the services would have answered.
C11_EmptyKeyNoOutboundCall ==
    /\ [][ (run'.op = "generate" /\ openai_api_key = "")
             => /\ run'.net = <<>>
                /\ run'.msg \in MissingKeyMessages ]_vars
    /\ [](\A st \in StyleInputs, g \in GenResponses,
             d \in DlResponses \cup {NotFetched} :
            LET out == generate_and_download_image(
                           FinalPrompt("s", "a", "e", st), "", g, d)
            IN /\ out.result = <<>>
               /\ out.net = <<>>
               /\ out.msg \in MissingKeyMessages)

\* a generation was requested without a key, after slides were added
C11_Witness ==
    /\ run.op = "generate"
    /\ openai_api_key = ""
    /\ run.msg \in MissingKeyMessages
    /\ run.net = <<>>
    /\ Len(slides) >= 2

\* C12: a generation that succeeds while another result is pending replaces
\* it: the slot then holds the url and bytes answered to this request and the
\* prompt of this request, and nothing of the earlier result is kept.
C12_LatestGenerationOverwrites ==
    [][ (run'.op = "generate" /\ run'.msg = SuccessMessage /\ PendingPresent)
            => \A su \in SubjectInputs, ac \in ActionInputs,
                  en \in EnvironmentInputs, st \in StyleInputs,
                  up \in Upstream :
                  GenerateImage(su, ac, en, st, up[1], up[2])
                      => /\ generated_image_url' = up[1].url
                         /\ generated_image_bytes' = up[2].content
                         /\ generated_prompt' = FinalPrompt(su, ac, en, st)
       ]_vars

\* the second of two successful generations, the first of which was never
\* committed (no slide has an image and no slide was ever deleted)
C12_Witness ==
    /\ run.op = "generate"
    /\ run.msg = SuccessMessage
    /\ generations = 2
    /\ PendingPresent
    /\ Len(slides) = next_id
    /\ \A k \in 1..Len(slides) : slides[k].image_url = None

Pictures(page) == {sh \in Range(page) : sh.shape = "picture"}
TextBoxes(page) == {sh \in Range(page) : sh.shape = "textbox"}

\* the page shows the image and the text of the slide and nothing else
PageFrom(page, slide) ==
    /\ \A sh \in Pictures(page) : sh.data = slide.image_bytes
    /\ \A sh \in TextBoxes(page) : sh.text = slide.text
    /\ Range(page) = Pictures(page) \cup TextBoxes(page)
    /\ Truthy(slide.image_bytes) => Pictures(page) # {}
    /\ slide.text # "" => TextBoxes(page) # {}

ExportedInOrder ==
    run.op = "export"
        => /\ Len(run.doc) = Len(slides)
           /\ \A k \in 1..Len(slides) : PageFrom(run.doc[k], slides[k])

\* C13 (as stated): whatever the slides are, also when none has an image,
\* the export can be triggered, and the document has one page per slide, the
\* k-th page made from the k-th slide.
C13_AsStated ==
    /\ ENABLED ExportPptx
    /\ ExportedInOrder

\* C13 (amended): whenever at least one slide has non-empty image bytes the
\* export can be triggered, and the document has one page per slide, the
\* k-th page made from the k-th slide, slides without an image included.
C13_ExportOnePagePerSlide ==
    /\ (\E k \in 1..Len(slides) : Truthy(slides[k].image_bytes))
           => ENABLED ExportPptx
    /\ ExportedInOrder

\* an export of several slides, the first of which has no image
C13_Witness ==
    /\ run.op = "export"
    /\ Len(slides) >= 2
    /\ Len(run.doc) = Len(slides)
    /\ ~Truthy(slides[1].image_bytes)
    /\ Truthy(slides[Len(slides)].image_bytes)

\* C14 (as stated): the page of a slide without an image has no filled box;
\* a filled box is put only on pages of slides that have an image.
C14_AsStated ==
    run.op = "export"
        => \A k \in 1..Len(slides) :
              ~Truthy(slides[k].image_bytes)
                  => \A sh \in Range(run.doc[k]) : sh.fill # "solid"

\* C14 (amended): the page of a slide has the filled text box exactly if the
\* text of the slide is not empty, with or without an image; it has a picture
\* exactly if the slide has non-empty image bytes; no text is put on the page
\* outside the filled box, and the title is not put on the page.
C14_FilledBoxForEveryText ==
    run.op = "export"
        => \A k \in 1..Len(slides) :
              LET page == run.doc[k]
                  slide == slides[k]
              IN /\ (slide.text # "")
                        <=> (\E sh \in TextBoxes(page) :
                                sh.fill = "solid" /\ sh.text = slide.text)
                 /\ \A sh \in TextBoxes(page) : sh.fill = "solid"
                 /\ Truthy(slide.image_bytes) <=> (Pictures(page) # {})
                 /\ \A sh \in Range(page) : sh.text # slide.title

\* an export where a slide without an image has text and gets the filled box
C14_Witness ==
    /\ run.op = "export"
    /\ \E k \in 1..Len(slides) :
          /\ ~Truthy(slides[k].image_bytes)
          /\ slides[k].text # ""
          /\ \E sh \in TextBoxes(run.doc[k]) : sh.fill = "solid"

IdsOf(s) == [k \in 1..Len(s) |-> s[k].id]

\* the list with the slides at Python indices i and i + 1 exchanged
SwapAt(s, i) == [s EXCEPT ![i + 1] = s[i + 2], ![i + 2] = s[i + 1]]

\* C15 (as stated): a slide that is not at the boundary can be moved: for
\* every pair of adjacent slides some step of the program exchanges the two
\* and leaves the current index on the moved slide.
C15_AsStated ==
    \A i \in 0..(Len(slides) - 2) :
        ENABLED (/\ Next
                 /\ slides' = SwapAt(slides, i)
                 /\ current_slide_idx = i => current_slide_idx' = i + 1)

\* C15 (amended): there is no move operation: no step exchanges two slides;
\* the sequence of slide ids changes only by an add that appends one id at
\* the end or by a delete that removes the id at one position, and the other
\* slides keep their order.
C15_OrderNeverChanges ==
    [][ \/ IdsOf(slides') = IdsOf(slides)
        \/ /\ run'.op = "add"
           /\ IdsOf(slides') = Append(IdsOf(slides), run'.arg)
        \/ /\ run'.op = "delete"
           /\ Len(slides') = Len(slides) - 1
           /\ \A k \in 1..Len(slides') :
                 slides'[k].id =
                     slides[IF k <= run'.arg THEN k ELSE k + 1].id ]_vars

\* the first of three slides was removed and the other two kept their order
C15_Witness ==
    /\ DeleteDone
    /\ run.arg = 0
    /\ Len(slides) = 2
    /\ slides[1].id = 1
    /\ slides[2].id = 2

\* C16: a select takes effect only for an index within the list; it sets
\* the current index to that index and changes neither the slide list, the
\* id counter nor the pending generation.
C16_SelectSetsIndexOnly ==
    [][ run'.op = "select"
            => /\ 0 <= run'.arg
               /\ run'.arg < Len(slides)
               /\ current_slide_idx' = run'.arg
               /\ slides' = slides
               /\ next_id' = next_id
               /\ pending' = pending ]_vars

\* an earlier slide was selected while a generation is pending and an image
\* is on a slide
C16_Witness ==
    /\ run.op = "select"
    /\ current_slide_idx = run.arg
    /\ current_slide_idx < Len(slides) - 1
    /\ PendingPresent
    /\ \E k \in 1..Len(slides) : slides[k].image_url # None

\* C17: a commit changes only image_url, image_bytes and image_prompt of the
\* slide at the current index of the moment; the other slides, the order, the
\* id, title, text and text_position of that slide, the current index and the
\* id counter stay as they are.
C17_CommitTouchesCurrentImageOnly ==
    [][ run'.op = "commit"
            => /\ Len(slides') = Len(slides)
               /\ \A k \in 1..Len(slides) :
                     k # current_slide_idx + 1 => slides'[k] = slides[k]
               /\ LET old == slides[current_slide_idx + 1]
                      new == slides'[current_slide_idx + 1]
                  IN /\ new.id = old.id
                     /\ new.title = old.title
                     /\ new.text = old.text
                     /\ new.text_position = old.text_position
                     /\ new.image_url = generated_image_url
               /\ current_slide_idx' = current_slide_idx
               /\ next_id' = next_id ]_vars

\* a commit to the last slide, added after the first slide had been edited,
\* which is left without an image
C17_Witness ==
    /\ run.op = "commit"
    /\ Len(slides) >= 2
    /\ current_slide_idx = Len(slides) - 1
    /\ current_slide.image_url # None
    /\ slides[1].image_url = None
    /\ edits >= 1
    /\ slides[1] # InitialSlide

\* C18: the pending generation is all or nothing: the three generated_* keys
\* are all set or all absent in every reachable state, and add, delete and
\* select do not change them.
C18_PendingAllOrNothing ==
    /\ [](PendingPresent \/ PendingEmpty)
    /\ [][ run'.op \in {"add", "delete", "select"} => pending' = pending ]_vars

\* a slide was added while a result with an empty body is pending
C18_Witness ==
    /\ run.op = "add"
    /\ PendingPresent
    /\ generated_image_bytes = ""
    /\ Truthy(generated_prompt)

\* C19: the export can be triggered exactly if at least one slide has
\* non-empty image bytes; an export makes a page for every slide, with or
\* without image, and changes neither the slides, the current index, the id
\* counter nor the pending generation.
C19_ExportGatedAndReadOnly ==
    /\ []((\E k \in 1..Len(slides) : Truthy(slides[k].image_bytes))
              <=> ENABLED ExportPptx)
    /\ [][ run'.op = "export"
             => /\ Len(run'.doc) = Len(slides)
                /\ slides' = slides
                /\ current_slide_idx' = current_slide_idx
                /\ next_id' = next_id
                /\ pending' = pending ]_vars

\* an export of a list that has a slide without image, with a generation
\* pending
C19_Witness ==
    /\ run.op = "export"
    /\ \E k \in 1..Len(slides) : slides[k].image_bytes = None
    /\ Len(run.doc) = Len(slides)
    /\ PendingPresent

====
